---- MODULE Spec2Model ----
(***************************************************************************)
(* A model of labgrid's ShellDriver (driver/shelldriver.py) and            *)
(* SerialDriver (driver/serialdriver.py).                                  *)
(*                                                                         *)
(* Console text is a sequence of tokens (strings).  A token is an atomic   *)
(* piece of text; "CRLF" is the line terminator of the console, "NL" a     *)
(* bare newline inside a file or a command string, "# " a piece of text    *)
(* the configured prompt pattern matches.  A line is a sequence of tokens. *)
(***************************************************************************)
EXTENDS Integers, Sequences, FiniteSets, TLC

\* ------------------------------------------------------------------ bounds
\* Public operations issued on one session after start-up.
MaxOps == 2
\* Calls issued on one SerialDriver.
MaxCalls == 6
\* Lines of a before-text handed to the framing of run.
MaxLines == 4
\* Bytes the receive buffer of the serial port holds at most.
MaxPending == 2

\* ------------------------------------------------------------------ tokens
CRLF == "CRLF"
NL == "NL"
SP == " "
MARKER == "MARKER"
PROMPT == "# "
LOGIN == "login: "
PASSWORD_PROMPT == "Password: "
ESC == "ESC[0m"
PS2 == "> "
USERNAME == <<"root">>
NoArg == <<>>

IsWs(t) == t \in {SP, NL, "TAB"}
DigitVal == [t \in {"0", "1", "2", "3", "4", "5", "6", "7", "8", "9"} |->
               CASE t = "0" -> 0 [] t = "1" -> 1 [] t = "2" -> 2 [] t = "3" -> 3
                 [] t = "4" -> 4 [] t = "5" -> 5 [] t = "6" -> 6 [] t = "7" -> 7
                 [] t = "8" -> 8 [] t = "9" -> 9]
IsDigit(t) == t \in DOMAIN DigitVal
DigitTok == <<"0", "1", "2", "3", "4", "5", "6", "7", "8", "9">>

Last(s) == s[Len(s)]
Front(s) == SubSeq(s, 1, Len(s) - 1)
MinOf(S) == CHOOSE x \in S : \A y \in S : x <= y

\* First index >= i of s whose token satisfies no whitespace test, Len(s)+1 if none.
SkipWs(s, i) ==
    LET rest == {j \in i..Len(s) : ~IsWs(s[j])}
    IN IF rest = {} THEN Len(s) + 1 ELSE MinOf(rest)

\* str.split('\r\n'): n separators give n+1 pieces.
RECURSIVE SplitCRLF(_)
SplitCRLF(s) ==
    LET seps == {i \in 1..Len(s) : s[i] = CRLF}
    IN IF seps = {} THEN <<s>>
       ELSE LET i == MinOf(seps)
            IN <<SubSeq(s, 1, i - 1)>> \o SplitCRLF(SubSeq(s, i + 1, Len(s)))

\* re_vt100.sub('', text): every escape sequence is removed.
StripVT100(s) == SelectSeq(s, LAMBDA t : t # ESC)

\* list.index(x): the first position of x, 0 standing for ValueError.
IndexOf(data, x) ==
    LET hits == {i \in 1..Len(data) : data[i] = x}
    IN IF hits = {} THEN 0 ELSE MinOf(hits)

\* int(line): surrounding whitespace is stripped, one sign is allowed, then
\* decimal digits, single underscores allowed between digits.
RECURSIVE DigitsValue(_)
DigitsValue(d) ==
    IF d = <<>> THEN 0
    ELSE IF Last(d) = "_" THEN DigitsValue(Front(d))
    ELSE DigitsValue(Front(d)) * 10 + DigitVal[Last(d)]

IntBody(line) ==
    LET a == SkipWs(line, 1)
        nonws == {j \in 1..Len(line) : ~IsWs(line[j])}
        b == IF nonws = {} THEN 0 ELSE CHOOSE j \in nonws : \A k \in nonws : k <= j
    IN IF nonws = {} THEN <<>> ELSE SubSeq(line, a, b)

\* The digits of int(): decimal digits, single underscores between them.
IntDigits(digits, negative) ==
    IF /\ digits # <<>>
       /\ \A i \in 1..Len(digits) : IsDigit(digits[i]) \/ digits[i] = "_"
       /\ IsDigit(digits[1]) /\ IsDigit(Last(digits))
       /\ \A i \in 1..(Len(digits) - 1) : ~(digits[i] = "_" /\ digits[i + 1] = "_")
    THEN [ok |-> TRUE,
          val |-> IF negative THEN 0 - DigitsValue(digits) ELSE DigitsValue(digits)]
    ELSE [ok |-> FALSE, val |-> 0]

IntSigned(body) ==
    IF body # <<>> /\ body[1] \in {"+", "-"}
    THEN IntDigits(Tail(body), body[1] = "-")
    ELSE IntDigits(body, FALSE)

IntParse(line) == IntSigned(IntBody(line))

\* shlex.quote(cmd)
SafeTokens == {"hostname", "false", "exit"}
QuotedQuote == "'\"'\"'"
Quote(s) ==
    IF s = <<>> THEN <<"''">>
    ELSE IF \A i \in 1..Len(s) : s[i] \in SafeTokens THEN s
    ELSE <<"'">> \o [i \in 1..Len(s) |-> IF s[i] = "'" THEN QuotedQuote ELSE s[i]]
                 \o <<"'">>

\* ------------------------------------------------------- the remote device
\* The device on the other end of the console: a getty/login, then a POSIX
\* shell in which the wrapper function of _inject_run can be defined.
\*   mode     "silent" (nothing answers), "login", "passwd", "starting"
\*            (login accepted, input typed ahead is discarded), "shell"
\*   flush    whether login discards type-ahead before the shell starts
\*   rpw      the password the device asks for (<<>>: none)
\*   wrapper  whether run() is defined in the shell
\*   auth     content of ~/.ssh/authorized_keys, ABSENT if there is none
\*   tmpkeys  content of /tmp/keys
\*   ipout    what "ip -o -4 addr show" prints, ipcode its exit status
ABSENT == <<"ENOENT">>
WRAPPER_LINE == <<"run() { echo \"MARKER\"; sh -c \"$@\"; echo \"$?\"; echo \"MARKER\"; }">>

CmdCat == <<"cat ~/.ssh/authorized_keys">>
CmdTouch == <<"touch ~/.ssh/authorized_keys">>
CmdEcho(keyline) == <<"echo \"">> \o keyline \o <<"\" > /tmp/keys">>
CmdChmodTmp == <<"chmod 600 /tmp/keys">>
CmdMount == <<"mount --bind /tmp/keys ~/.ssh/authorized_keys">>
CmdChmodAuth == <<"chmod 600 ~/.ssh/authorized_keys">>
CmdIp == <<"ip -o -4 addr show">>
CmdHostname == <<"hostname">>

RECURSIVE ToDigits(_)
ToDigits(n) ==
    IF n < 10 THEN <<DigitTok[n + 1]>>
    ELSE ToDigits(n \div 10) \o <<DigitTok[(n % 10) + 1]>>

\* The terminal echoes a typed newline as CRLF and the shell asks for the
\* continuation of an unfinished line with PS2.
RECURSIVE Echo(_)
Echo(line) ==
    IF line = <<>> THEN <<>>
    ELSE (IF Head(line) = NL THEN <<CRLF, PS2>> ELSE <<Head(line)>>) \o Echo(Tail(line))

\* A file printed on the terminal: every newline leaves as CRLF.
ToConsole(content) == [i \in 1..Len(content) |-> IF content[i] = NL THEN CRLF ELSE content[i]]

\* The shell's word parsing, the inverse of shlex.quote.
Unquote(q) ==
    IF q = <<"''">> THEN <<>>
    ELSE IF Len(q) >= 2 /\ q[1] = "'" /\ Last(q) = "'"
         THEN LET inner == SubSeq(q, 2, Len(q) - 1)
              IN [i \in 1..Len(inner) |-> IF inner[i] = QuotedQuote THEN "'" ELSE inner[i]]
         ELSE q

\* What sh -c cmd prints (stdout and stderr merged), its exit status and the
\* device it leaves.
Behaviour(r, cmd) ==
    CASE cmd = <<"echo hi">> -> [out |-> <<"hi", CRLF>>, code |-> 0, r |-> r]
      [] cmd = <<"false">> -> [out |-> <<>>, code |-> 1, r |-> r]
      [] cmd = <<"cat log">> -> [out |-> <<"boot", PROMPT, CRLF>>, code |-> 0, r |-> r]
      [] cmd = <<"echo ", PROMPT>> -> [out |-> <<PROMPT, CRLF>>, code |-> 0, r |-> r]
      [] cmd = <<"printf hi">> -> [out |-> <<"hi">>, code |-> 0, r |-> r]
      [] cmd = <<"printf 5">> -> [out |-> <<"5">>, code |-> 0, r |-> r]
      [] cmd = <<"ls --color">> -> [out |-> <<ESC, "f", ESC, CRLF>>, code |-> 0, r |-> r]
      [] cmd = CmdHostname -> [out |-> <<"dut", CRLF>>, code |-> 0, r |-> r]
      [] cmd = CmdIp -> [out |-> r.ipout, code |-> r.ipcode, r |-> r]
      [] cmd = CmdCat ->
            IF r.auth = ABSENT
            THEN [out |-> <<"cat: No such file or directory", CRLF>>, code |-> 1, r |-> r]
            ELSE [out |-> ToConsole(r.auth), code |-> 0, r |-> r]
      [] cmd = CmdTouch ->
            [out |-> <<>>, code |-> 0,
             r |-> IF r.auth = ABSENT THEN [r EXCEPT !.auth = <<>>] ELSE r]
      [] Len(cmd) >= 2 /\ cmd[1] = "echo \"" /\ Last(cmd) = "\" > /tmp/keys" ->
            [out |-> <<>>, code |-> 0,
             r |-> [r EXCEPT !.tmpkeys = SubSeq(cmd, 2, Len(cmd) - 1) \o <<NL>>]]
      [] cmd = CmdChmodTmp ->
            IF r.tmpkeys = ABSENT
            THEN [out |-> <<"chmod: No such file or directory", CRLF>>, code |-> 1, r |-> r]
            ELSE [out |-> <<>>, code |-> 0, r |-> r]
      [] cmd = CmdMount ->
            IF r.tmpkeys = ABSENT \/ r.auth = ABSENT
            THEN [out |-> <<"mount: No such file or directory", CRLF>>, code |-> 1, r |-> r]
            ELSE [out |-> <<>>, code |-> 0, r |-> [r EXCEPT !.auth = r.tmpkeys]]
      [] cmd = CmdChmodAuth ->
            IF r.auth = ABSENT
            THEN [out |-> <<"chmod: No such file or directory", CRLF>>, code |-> 1, r |-> r]
            ELSE [out |-> <<>>, code |-> 0, r |-> r]
      [] OTHER -> [out |-> <<"sh: not found", CRLF>>, code |-> 127, r |-> r]

\* A shell that has just started prints its prompt, after the text before.
LoggedIn(r, before) ==
    IF r.flush THEN [out |-> before, r |-> [r EXCEPT !.mode = "starting"]]
    ELSE [out |-> before \o <<PROMPT>>, r |-> [r EXCEPT !.mode = "shell"]]

\* The wrapper function at work: marker, the command's output, its exit status,
\* marker, and the prompt again.
Wrapped(line, b) ==
    [out |-> Echo(line) \o <<CRLF, MARKER, CRLF>> \o b.out
               \o ToDigits(b.code) \o <<CRLF, MARKER, CRLF, PROMPT>>,
     r |-> b.r]

\* What the device sends back for one line typed on the console, and the
\* device it becomes.
Respond(r, line) ==
    CASE r.mode = "silent" -> [out |-> <<>>, r |-> r]
      [] r.mode = "login" ->
            IF line = <<>> THEN [out |-> <<CRLF, LOGIN>>, r |-> r]
            ELSE IF r.rpw # <<>>
                 THEN [out |-> Echo(line) \o <<CRLF, PASSWORD_PROMPT>>,
                       r |-> [r EXCEPT !.mode = "passwd"]]
                 ELSE LoggedIn(r, Echo(line) \o <<CRLF>>)
      [] r.mode = "passwd" ->
            IF line = r.rpw THEN LoggedIn(r, <<CRLF>>)
            ELSE [out |-> <<CRLF, "Login incorrect", CRLF, LOGIN>>,
                  r |-> [r EXCEPT !.mode = "login"]]
      [] r.mode = "starting" ->
            [out |-> <<PROMPT>>, r |-> [r EXCEPT !.mode = "shell"]]
      [] r.mode = "shell" ->
            IF line = <<>> THEN [out |-> <<CRLF, PROMPT>>, r |-> r]
            ELSE IF line = WRAPPER_LINE
                 THEN [out |-> Echo(line) \o <<CRLF, PROMPT>>,
                       r |-> [r EXCEPT !.wrapper = TRUE]]
            ELSE IF line = <<"exit">>
                 THEN [out |-> Echo(line) \o <<CRLF, LOGIN>>,
                       r |-> [r EXCEPT !.mode = "login", !.wrapper = FALSE]]
            ELSE IF line[1] = "run " /\ r.wrapper
                 THEN Wrapped(line, Behaviour(r, Unquote(Tail(line))))
            ELSE [out |-> Echo(line) \o <<CRLF, "sh: not found", CRLF, PROMPT>>, r |-> r]

\* The lines a command really printed: its text cut at the line ends.
DropLastEmpty(pieces) == IF Last(pieces) = <<>> THEN Front(pieces) ELSE pieces
TrueLines(out) == DropLastEmpty(SplitCRLF(StripVT100(out)))

\* ------------------------------------------------------------ ShellDriver
VARIABLES
    pc,      \* position in __attrs_post_init__: "await_login", "check_prompt",
             \* "inject_run", "put_ssh_key", then "ready" (constructed) or
             \* "failed" (the constructor raised)
    status,  \* ShellDriver._status
    cfg,     \* the attributes password and keyfile
    stream,  \* console bytes received from the device and not yet consumed
    remote,  \* the device
    sent,    \* the lines sent during start-up, in order
    waits,   \* the expect calls of start-up: pattern and whether it matched
    exc,     \* the exception the constructor raised, "" if none
    last,    \* the last public operation: its argument, what it sent, its result
    nops     \* public operations issued so far

\* SerialDriver
VARIABLES
    sstatus,   \* SerialDriver.status
    port,      \* the bound resource: its kind and whether the device can open
    target,    \* serial.port and serial.baudrate once resolved
    isOpen,    \* whether the underlying serial port is open
    physOpens, \* serial.open() calls issued
    physCloses,\* serial.close() calls issued
    slast,     \* the last call on the driver and how it ended
    ncalls,    \* calls issued so far
    in_waiting \* serial.in_waiting: bytes received and not yet read

shellVars == <<pc, status, cfg, stream, remote, sent, waits, exc, last, nops>>
serialVars == <<sstatus, port, target, isOpen, physOpens, physCloses, slast, ncalls,
                in_waiting>>
vars == <<pc, status, cfg, stream, remote, sent, waits, exc, last, nops,
          sstatus, port, target, isOpen, physOpens, physCloses, slast, ncalls,
          in_waiting>>

\* ---- results of a call
None == [kind |-> "none", exc |-> "", arg |-> <<>>, lines |-> <<>>, diag |-> <<>>,
         code |-> 0, val |-> <<>>]
Raise(e, a) == [None EXCEPT !.kind = "raise", !.exc = e, !.arg = a]
Triple(lines, code) == [None EXCEPT !.kind = "tuple", !.lines = lines, !.code = code]
Lines(lines) == [None EXCEPT !.kind = "lines", !.lines = lines]
Value(v) == [None EXCEPT !.kind = "value", !.val = v]
IntValue(n) == [None EXCEPT !.kind = "int", !.code = n]

\* ---- the console (ConsoleExpectMixin over the transport)
\* sendline(line): the line reaches the device, whose answer joins the stream.
Received(w, a) == [stream |-> w.stream \o a.out, remote |-> a.r]
SendLine(w, line) == Received(w, Respond(w.remote, line))

\* expect(pattern): the first match in the stream is consumed with all before
\* it; on a timeout nothing is consumed.
MatchAt(s, i) ==
    [matched |-> TRUE, before |-> SubSeq(s, 1, i - 1), rest |-> SubSeq(s, i + 1, Len(s))]
Expect(s, pat, timedout) ==
    IF timedout \/ pat \notin {s[i] : i \in 1..Len(s)}
    THEN [matched |-> FALSE, before |-> <<>>, rest |-> s]
    ELSE MatchAt(s, MinOf({i \in 1..Len(s) : s[i] = pat}))

\* ---- run
\* Mutant: the status test of run dropped.
RunGuardAlways(st) == TRUE
RunGuard(st) == st = 1

\* The framing of run, statement by statement: from the before-text to
\* (data, [], exitcode).
ExitCode(data, n) ==
    IF n.ok THEN Triple(data, n.val) ELSE Raise("ValueError", <<>>)
LastIsExit(data) ==
    IF data = <<>> THEN Raise("IndexError", <<>>)
    ELSE ExitCode(Front(data), IntParse(Last(data)))
\* Mutant: the text is cut at the last marker, not the next one.
UpToLastMarker(data) ==
    IF IndexOf(data, <<MARKER>>) = 0 THEN Raise("ValueError", <<>>)
    ELSE LastIsExit(SubSeq(data, 1,
            (CHOOSE i \in 1..Len(data) :
                /\ data[i] = <<MARKER>>
                /\ \A k \in 1..Len(data) : data[k] = <<MARKER>> => k <= i) - 1))
UpToMarker(data) ==
    IF IndexOf(data, <<MARKER>>) = 0 THEN Raise("ValueError", <<>>)
    ELSE LastIsExit(SubSeq(data, 1, IndexOf(data, <<MARKER>>) - 1))
AfterMarker(data) ==
    IF IndexOf(data, <<MARKER>>) = 0 THEN Raise("ValueError", <<>>)
    ELSE UpToMarker(SubSeq(data, IndexOf(data, <<MARKER>>) + 1, Len(data)))
Extract(before) == AfterMarker(SplitCRLF(StripVT100(before)))

\* The result of a call: the world after (stream and device), the result, the
\* result of the run inside a run_check, the lines sent and the waits made.
Call(w, res, inner, lines, nwaits) ==
    [w |-> w, res |-> res, inner |-> inner, sent |-> lines, nwaits |-> nwaits]

\* Mutant: a timeout of the wait for the prompt is passed over.
RunWaitedAbsorbing(w1, e, cmp_command) ==
    Call([w1 EXCEPT !.stream = e.rest],
         IF e.matched THEN Extract(e.before) ELSE None,
         None, <<cmp_command>>, 1)
\* run after the send: the wait for the prompt and the framing.
RunWaited(w1, e, cmp_command) ==
    Call([w1 EXCEPT !.stream = e.rest],
         IF e.matched THEN Extract(e.before) ELSE Raise("TIMEOUT", <<>>),
         None, <<cmp_command>>, 1)
RunSent(w1, cmp_command, timedout) ==
    RunWaited(w1, Expect(w1.stream, PROMPT, timedout), cmp_command)

\* run(cmd) in world w (stream and device); timedout: the wait for the prompt
\* times out.
RunCall(st, w, cmd, timedout) ==
    IF RunGuard(st)
    THEN RunSent(SendLine(w, <<"run ">> \o Quote(cmd)), <<"run ">> \o Quote(cmd), timedout)
    ELSE Call(w, None, None, <<>>, 0)

\* What the device does with cmd when it is run now: whether the wrapper runs
\* it, and the lines and exit status it then has.
TruthOf(r, b) ==
    [ran |-> r.mode = "shell" /\ r.wrapper, lines |-> TrueLines(b.out),
     code |-> b.code, out |-> b.out]
Truth(r, cmd) == TruthOf(r, Behaviour(r, cmd))
NoTruth == [ran |-> FALSE, lines |-> <<>>, code |-> 0, out |-> <<>>]

World == [stream |-> stream, remote |-> remote]

NoOp == [op |-> "", arg |-> <<>>, res |-> None, inner |-> None, sent |-> <<>>,
         nwaits |-> 0, truth |-> NoTruth, insync |-> FALSE]

\* ---- start-up: __attrs_post_init__, one action per method it calls
\* A step of start-up: the world after, the lines sent and the waits made.
Step(w, lines, ws) == [w |-> w, sent |-> lines, waits |-> ws]
Waited(pat, e) == [pat |-> pat, matched |-> e.matched]

\* await_login, from its end backwards: the password part ...
PasswordSent(w2, e2, password, e1) ==
    Step(SendLine([w2 EXCEPT !.stream = e2.rest], password),
         <<<<>>, USERNAME, password>>,
         <<Waited(LOGIN, e1), Waited(PASSWORD_PROMPT, e2)>>)
\* ... the username ...
UsernameSent(w2, password, e1, to2) ==
    IF password # <<>>
    THEN PasswordSent(w2, Expect(w2.stream, PASSWORD_PROMPT, to2), password, e1)
    ELSE Step(w2, <<<<>>, USERNAME>>, <<Waited(LOGIN, e1)>>)
\* Mutant: a login prompt that does not come ends await_login.
LoginWaitedAborting(w1, e1, password, to2) ==
    IF e1.matched
    THEN UsernameSent(SendLine([w1 EXCEPT !.stream = e1.rest], USERNAME), password, e1, to2)
    ELSE Step(w1, <<<<>>>>, <<Waited(LOGIN, e1)>>)
\* ... the wait for the login prompt, whose timeout is passed over ...
LoginWaited(w1, e1, password, to2) ==
    UsernameSent(SendLine([w1 EXCEPT !.stream = e1.rest], USERNAME), password, e1, to2)
EmptyLineSent(w1, password, to1, to2) ==
    LoginWaited(w1, Expect(w1.stream, LOGIN, to1), password, to2)
\* ... and the empty line it starts with.
AwaitLoginCall(w, password, to1, to2) ==
    EmptyLineSent(SendLine(w, <<>>), password, to1, to2)

Advance(s, nextpc) ==
    /\ stream' = s.w.stream
    /\ remote' = s.w.remote
    /\ sent' = sent \o s.sent
    /\ waits' = waits \o s.waits
    /\ pc' = nextpc

AwaitLogin(to1, to2) ==
    /\ pc = "await_login"
    /\ (cfg.password = <<>> => ~to2)
    /\ Advance(AwaitLoginCall(World, cfg.password, to1, to2), "check_prompt")
    /\ UNCHANGED <<status, cfg, exc, last, nops>>
    /\ UNCHANGED serialVars

\* Mutant: the status set to 1 whatever the wait gave.
CheckPromptStatusAlways(matched) == 1
\* _check_prompt: the status the wait for the prompt gives.
CheckPromptStatus(matched) == IF matched THEN 1 ELSE 0

\* A wait for the prompt after a line has been sent.
PromptWaited(w1, e, line) ==
    [w |-> [w1 EXCEPT !.stream = e.rest], sent |-> <<line>>,
     waits |-> <<Waited(PROMPT, e)>>, matched |-> e.matched]
PromptAfter(w1, line, to) == PromptWaited(w1, Expect(w1.stream, PROMPT, to), line)

CheckPromptCall(w, to) == PromptAfter(SendLine(w, <<>>), <<>>, to)

CheckPromptDone(s) ==
    /\ Advance(s, "inject_run")
    /\ status' = CheckPromptStatus(s.matched)

CheckPrompt(to) ==
    /\ pc = "check_prompt"
    /\ CheckPromptDone(CheckPromptCall(World, to))
    /\ UNCHANGED <<cfg, exc, last, nops>>
    /\ UNCHANGED serialVars

InjectRunCall(w, to) == PromptAfter(SendLine(w, WRAPPER_LINE), WRAPPER_LINE, to)

\* After _inject_run: on with put_ssh_key if a key file is set; a timeout of
\* the wait leaves the constructor.
InjectRunDone(s) ==
    /\ Advance(s, IF ~s.matched THEN "failed"
                  ELSE IF cfg.keyfile # <<>> THEN "put_ssh_key" ELSE "ready")
    /\ exc' = IF s.matched THEN exc ELSE "TIMEOUT"

InjectRun(to) ==
    /\ pc = "inject_run"
    /\ InjectRunDone(InjectRunCall(World, to))
    /\ UNCHANGED <<status, cfg, last, nops>>
    /\ UNCHANGED serialVars

\* ---- run_check
\* Mutant: only exit codes above 1 count as failure.
RunCheckFailsAboveOne(code) == code > 1
RunCheckFails(code) == code # 0

\* Mutant: an absent result of run counts as a failed command.
RunCheckResultNoneAsFailure(r, cmd) ==
    Call(r.w,
         IF r.res.kind = "raise" THEN r.res
         ELSE IF r.res.kind = "none" THEN Raise("ExecutionError", cmd)
         ELSE IF RunCheckFails(r.res.code) THEN Raise("ExecutionError", cmd)
         ELSE Lines(r.res.lines),
         r.res, r.sent, r.nwaits)
\* run_check(cmd) after its run: res[2] of None is a TypeError.
RunCheckResult(r, cmd) ==
    Call(r.w,
         IF r.res.kind = "raise" THEN r.res
         ELSE IF r.res.kind = "none" THEN Raise("TypeError", <<>>)
         ELSE IF RunCheckFails(r.res.code) THEN Raise("ExecutionError", cmd)
         ELSE Lines(r.res.lines),
         r.res, r.sent, r.nwaits)
RunCheckCall(st, w, cmd, timedout) == RunCheckResult(RunCall(st, w, cmd, timedout), cmd)

\* ---- get_ip
At(s, i) == IF i \in 1..Len(s) THEN s[i] ELSE ""
NumColon == {"1:", "2:", "3:"}
WordTokens == {"eth0", "eth1", "lo"}
AddrTokens == {"192.168.1.5", "10.0.0.2", "127.0.0.1"}
PrefixTokens == {"8", "24"}

\* regex.match(line) of get_ip: the groups 'if' and 'ip' of a line
\* "<n>: <if> inet <ip>/<prefix> ... global"; i1, i2, i3 are where the
\* interface, "inet" and the address start.
IpMatchAt(line, i1, i2, i3) ==
    [ok |-> /\ At(line, 1) \in NumColon
            /\ i1 > 2 /\ At(line, i1) \in WordTokens
            /\ i2 > i1 + 1 /\ At(line, i2) = "inet"
            /\ i3 > i2 + 1 /\ At(line, i3) \in AddrTokens
            /\ At(line, i3 + 1) = "/" /\ At(line, i3 + 2) \in PrefixTokens
            /\ \E j \in (i3 + 3)..Len(line) : line[j] = "global",
     if |-> At(line, i1), ip |-> At(line, i3)]
IpMatchFrom(line, i1, i2) == IpMatchAt(line, i1, i2, SkipWs(line, i2 + 1))
IpMatchAfter(line, i1) == IpMatchFrom(line, i1, SkipWs(line, i1 + 1))
IpMatch(line) == IpMatchAfter(line, SkipWs(line, 2))

\* The dictionary result of get_ip: a later line overrides an earlier one.
LastOf(S) == CHOOSE i \in S : \A k \in S : k <= i
IpResult(ip_string) ==
    [n \in {IpMatch(ip_string[i]).if : i \in {k \in 1..Len(ip_string) : IpMatch(ip_string[k]).ok}} |->
        IpMatch(ip_string[LastOf({i \in 1..Len(ip_string) :
                    IpMatch(ip_string[i]).ok /\ IpMatch(ip_string[i]).if = n})]).ip]

\* result[interface] of a non-empty dictionary: KeyError if the key is missing.
IpLookup(result, interface) ==
    IF interface \in DOMAIN result THEN Value(<<result[interface]>>)
    ELSE Raise("KeyError", <<interface>>)

GetIpPick(result, interface) ==
    IF DOMAIN result # {} THEN IpLookup(result, interface) ELSE None

\* get_ip after its run_check: ExecutionError is caught, any other error
\* leaves get_ip.
GetIpResult(rc, interface) ==
    Call(rc.w,
         IF rc.res.kind = "raise"
         THEN (IF rc.res.exc = "ExecutionError" THEN None ELSE rc.res)
         ELSE GetIpPick(IpResult(rc.res.lines), interface),
         rc.inner, rc.sent, rc.nwaits)

GetIpCall(st, w, interface, timedout) ==
    IF st = 1 THEN GetIpResult(RunCheckCall(st, w, CmdIp, timedout), interface)
    ELSE Call(w, None, None, <<>>, 0)

\* ---- get_hostname
GetHostnameResult(rc) ==
    Call(rc.w,
         IF rc.res.kind = "raise"
         THEN (IF rc.res.exc = "ExecutionError" THEN None ELSE rc.res)
         ELSE IF rc.res.lines = <<>> THEN Raise("IndexError", <<>>)
         ELSE Value(rc.res.lines[1]),
         rc.inner, rc.sent, rc.nwaits)

GetHostnameCall(st, w, timedout) ==
    IF st = 1 THEN GetHostnameResult(RunCheckCall(st, w, CmdHostname, timedout))
    ELSE Call(w, None, None, <<>>, 0)

\* ---- put_ssh_key
IsKeyChars(t) == t \in {"AAAA", "BBBB", "CCCC", "DDDD"}

\* regex.match(line) of put_ssh_key: "ssh-rsa", whitespace, the key material
\* (at i1), whitespace, then the comment (which may be empty).
SshMatchAt(line, i1) ==
    [ok |-> /\ At(line, 1) = "ssh-rsa"
            /\ i1 > 2 /\ IsKeyChars(At(line, i1))
            /\ IsWs(At(line, i1 + 1)),
     key |-> At(line, i1)]
SshMatch(line) == SshMatchAt(line, SkipWs(line, 2))

\* Whether an entry of authorized_keys already holds the key material.
KeyOnTarget(auth_keys, new_key) ==
    \E i \in 1..Len(auth_keys) :
        SshMatch(auth_keys[i]).ok /\ SshMatch(auth_keys[i]).key = new_key

\* A call made after the calls gathered in acc.
Gathered(acc, c) ==
    Call(c.w, IF c.res.kind = "raise" THEN c.res ELSE None, None,
         acc.sent \o c.sent, acc.nwaits + c.nwaits)

\* One run_check of put_ssh_key after the calls gathered in acc; a raise ends
\* the method.
KeyStep(st, acc, cmd, timedout) ==
    IF acc.res.kind = "raise" THEN acc
    ELSE Gathered(acc, RunCheckCall(st, acc.w, cmd, timedout))

\* The key is written to /tmp/keys and mounted over authorized_keys.
Install(st, acc, keyline, k) ==
    KeyStep(st,
        KeyStep(st,
            KeyStep(st,
                KeyStep(st, acc, CmdEcho(keyline), k = 3),
                CmdChmodTmp, k = 4),
            CmdMount, k = 5),
        CmdChmodAuth, k = 6)

\* After authorized_keys has been read (and created): install unless the key
\* is there.
Compare(st, auth_keys, acc, keyline, k) ==
    IF acc.res.kind = "raise" THEN acc
    ELSE IF KeyOnTarget(auth_keys, SshMatch(keyline).key) THEN acc
    ELSE Install(st, acc, keyline, k)

\* After the cat: exit code 1 has the file created with touch.
AfterCat(st, cat, keyline, k) ==
    IF cat.res.kind = "raise" THEN cat
    ELSE IF cat.res.code = 1
         THEN Compare(st, cat.res.lines,
                      Gathered(cat, RunCall(st, cat.w, CmdTouch, k = 2)), keyline, k)
         ELSE Compare(st, cat.res.lines, Gathered(cat, Call(cat.w, None, None, <<>>, 0)),
                      keyline, k)

\* put_ssh_key with keyline the first line of the key file; slot k of the runs
\* cat, touch, echo, chmod, mount, chmod times out (0: none does).
PutSshKeyCall(st, w, keyline, k) ==
    IF st # 1 THEN Call(w, None, None, <<>>, 0)
    ELSE IF ~SshMatch(keyline).ok THEN Call(w, Raise("IOError", <<>>), None, <<>>, 0)
    ELSE AfterCat(st, RunCall(st, w, CmdCat, k = 1), keyline, k)

\* ---- the rest of start-up: put_ssh_key(self.keyfile) if a key file is set
StartupKeyDone(c) ==
    /\ stream' = c.w.stream
    /\ remote' = c.w.remote
    /\ sent' = sent \o c.sent
    /\ pc' = IF c.res.kind = "raise" THEN "failed" ELSE "ready"
    /\ exc' = IF c.res.kind = "raise" THEN c.res.exc ELSE exc

StartupPutSshKey(k) ==
    /\ pc = "put_ssh_key"
    /\ StartupKeyDone(PutSshKeyCall(status, World, cfg.keyfile, k))
    /\ UNCHANGED <<status, cfg, waits, last, nops>>
    /\ UNCHANGED serialVars

\* ---- the public operations of a constructed session
UserCmds == {<<"echo hi">>, <<"false">>, <<"cat log">>, <<"echo ", PROMPT>>,
             <<"printf hi">>, <<"printf 5">>, <<"ls --color">>}
Interfaces == {"eth0", "eth1"}
IpLine(n, if, ip, scope) ==
    <<n, SP, if, SP, SP, "inet", SP, ip, "/", "24", SP, "scope", SP, scope, SP, if, CRLF>>
IpLo == <<"1:", SP, "lo", SP, SP, "inet", SP, "127.0.0.1", "/", "8", SP, "scope", SP,
          "host", SP, "lo", CRLF>>
IpCases == {
    [out |-> <<>>, code |-> 0],
    [out |-> IpLo, code |-> 0],
    [out |-> IpLo \o IpLine("2:", "eth0", "192.168.1.5", "global"), code |-> 0],
    [out |-> IpLine("3:", "eth1", "10.0.0.2", "global"), code |-> 0],
    [out |-> IpLine("2:", "eth0", "192.168.1.5", "global")
               \o IpLine("3:", "eth1", "10.0.0.2", "global"), code |-> 0],
    [out |-> <<"ip: command failed", CRLF>>, code |-> 1]}
KeyRsa == <<"ssh-rsa", SP, "AAAA", SP, "user@host", NL>>
KeyNoComment == <<"ssh-rsa", SP, "BBBB", NL>>
KeyDss == <<"ssh-dss", SP, "CCCC", SP, "user@host", NL>>
KeyFiles == {KeyRsa, KeyNoComment, KeyDss}
KeySlots == 0..6

Callable == pc = "ready" /\ nops < MaxOps

\* Mutant: a public call that raises resets the status.
DoneResettingStatus(op, arg, c, truth) ==
    /\ stream' = c.w.stream
    /\ remote' = c.w.remote
    /\ last' = [op |-> op, arg |-> arg, res |-> c.res, inner |-> c.inner,
                sent |-> c.sent, nwaits |-> c.nwaits, truth |-> truth,
                insync |-> stream = <<>>]
    /\ nops' = nops + 1
    /\ status' = IF c.res.kind = "raise" THEN 0 ELSE status
    /\ UNCHANGED <<pc, cfg, sent, waits, exc>>
    /\ UNCHANGED serialVars

\* A public call ends: the console and device as it leaves them, and what is
\* recorded of it.
Done(op, arg, c, truth) ==
    /\ stream' = c.w.stream
    /\ remote' = c.w.remote
    /\ last' = [op |-> op, arg |-> arg, res |-> c.res, inner |-> c.inner,
                sent |-> c.sent, nwaits |-> c.nwaits, truth |-> truth,
                insync |-> stream = <<>>]
    /\ nops' = nops + 1
    /\ UNCHANGED <<pc, status, cfg, sent, waits, exc>>
    /\ UNCHANGED serialVars

Run(cmd, to) ==
    /\ Callable
    /\ Done("run", cmd, RunCall(status, World, cmd, to), Truth(remote, cmd))

RunCheck(cmd, to) ==
    /\ Callable
    /\ Done("run_check", cmd, RunCheckCall(status, World, cmd, to), Truth(remote, cmd))

GetStatus ==
    /\ Callable
    /\ Done("get_status", NoArg, Call(World, IntValue(status), None, <<>>, 0), NoTruth)

\* The network of the device is as net when get_ip asks.
Network(r, net) == [r EXCEPT !.ipout = net.out, !.ipcode = net.code]
GetIpOn(r0, interface, to) ==
    Done("get_ip", <<interface>>,
         GetIpCall(status, [stream |-> stream, remote |-> r0], interface, to),
         Truth(r0, CmdIp))
GetIp(interface, net, to) ==
    /\ Callable
    /\ GetIpOn(Network(remote, net), interface, to)

GetHostname(to) ==
    /\ Callable
    /\ Done("get_hostname", NoArg, GetHostnameCall(status, World, to),
            Truth(remote, CmdHostname))

PutSshKey(keyline, k) ==
    /\ Callable
    /\ Done("put_ssh_key", keyline, PutSshKeyCall(status, World, keyline, k), NoTruth)

Cleanup ==
    /\ Callable
    /\ Done("cleanup", NoArg, Call(SendLine(World, <<"exit">>), None, None, <<<<"exit">>>>, 0),
            NoTruth)

\* ---- the sessions considered
Passwords == {<<>>, <<"pw">>}
OtherKey == <<"ssh-rsa", SP, "DDDD", SP, "other", NL>>
Device(mode, flush, rpw, auth) ==
    [mode |-> mode, flush |-> flush, rpw |-> rpw, wrapper |-> FALSE, auth |-> auth,
     tmpkeys |-> ABSENT, ipout |-> <<>>, ipcode |-> 0]
\* The devices a session configured with password pw may face, with the
\* authorized_keys files in auths.
Devices(pw, auths) ==
    {Device(m, f, pw, a) : m \in {"login", "shell"}, f \in BOOLEAN, a \in auths}
      \cup {Device("silent", FALSE, pw, ABSENT)}

\* The state after attr has set the attributes and _status = 0 (line 34).
ShellInit(keyfiles, auths) ==
    /\ pc = "await_login"
    /\ status = 0
    /\ cfg \in [password : Passwords, keyfile : keyfiles]
    /\ stream = <<>>
    /\ remote \in Devices(cfg.password, auths)
    /\ sent = <<>>
    /\ waits = <<>>
    /\ exc = ""
    /\ last = NoOp
    /\ nops = 0

\* __attrs_post_init__ of a session without a key file.
Startup ==
    \/ \E to1, to2 \in BOOLEAN : AwaitLogin(to1, to2)
    \/ \E to \in BOOLEAN : CheckPrompt(to)
    \/ \E to \in BOOLEAN : InjectRun(to)

\* ----------------------------------------------------------- SerialDriver
\* The resource bound as port: a local SerialPort, or a NetworkSerialPort
\* with its protocol.
Ports == {[kind |-> "SerialPort", port |-> "/dev/ttyUSB0", speed |-> 115200],
          [kind |-> "rfc2217", port |-> "host:4000", speed |-> 115200],
          [kind |-> "raw", port |-> "host:4001", speed |-> 9600]}

\* serial.port and serial.baudrate after the constructor: nothing that can be
\* opened (resolved: on_activate has set the target).
Unresolved(p) ==
    [port |-> IF p.kind = "raw" THEN "socket://" ELSE "None", baudrate |-> 9600,
     resolved |-> FALSE]

\* on_activate: the target of the connection, or the configuration error.
Resolve(p) ==
    CASE p.kind = "SerialPort" ->
            [ok |-> TRUE,
             t |-> [port |-> p.port, baudrate |-> p.speed, resolved |-> TRUE]]
      [] p.kind = "rfc2217" ->
            [ok |-> TRUE,
             t |-> [port |-> "rfc2217://host:4000/", baudrate |-> p.speed,
                    resolved |-> TRUE]]
      [] p.kind = "raw" ->
            [ok |-> TRUE,
             t |-> [port |-> "socket://host:4001/", baudrate |-> p.speed,
                    resolved |-> TRUE]]
      [] OTHER -> [ok |-> FALSE, t |-> Unresolved(p)]

\* serial.open() of the library: it fails on a port that is not configured or
\* is already open, and when the device cannot be opened (avail false).
PhysOpenOk(t, io, avail) == t.resolved /\ ~io /\ avail

SerialOk == [kind |-> "return", exc |-> "", arg |-> ""]
SerialError(port_name) == [kind |-> "raise", exc |-> "SerialException", arg |-> port_name]

\* Mutant: open() without the status test.
OpenGuardAlways(st) == TRUE
OpenGuard(st) == st = 0
CloseGuard(st) == st # 0

\* Mutant: the status set before the physical open is tried.
OpenCallStatusFirst(st, t, io, avail) ==
    IF st = 0
    THEN IF PhysOpenOk(t, io, avail)
         THEN [st |-> 1, io |-> TRUE, opens |-> 1, closes |-> 0, res |-> SerialOk]
         ELSE [st |-> 1, io |-> io, opens |-> 1, closes |-> 0, res |-> SerialError(t.port)]
    ELSE [st |-> st, io |-> io, opens |-> 0, closes |-> 0, res |-> SerialOk]

\* open() with status st, target t and the port open or not (io): the status
\* and port after, the physical opens issued and the result.
OpenCall(st, t, io, avail) ==
    IF OpenGuard(st)
    THEN IF PhysOpenOk(t, io, avail)
         THEN [st |-> 1, io |-> TRUE, opens |-> 1, closes |-> 0, res |-> SerialOk]
         ELSE [st |-> st, io |-> io, opens |-> 1, closes |-> 0, res |-> SerialError(t.port)]
    ELSE [st |-> st, io |-> io, opens |-> 0, closes |-> 0, res |-> SerialOk]

\* Mutant: close() closes the port and leaves the status.
CloseCallKeepsStatus(st, io) ==
    IF CloseGuard(st)
    THEN [st |-> st, io |-> FALSE, opens |-> 0, closes |-> 1, res |-> SerialOk]
    ELSE [st |-> st, io |-> io, opens |-> 0, closes |-> 0, res |-> SerialOk]

\* close()
CloseCall(st, io) ==
    IF CloseGuard(st)
    THEN [st |-> 0, io |-> FALSE, opens |-> 0, closes |-> 1, res |-> SerialOk]
    ELSE [st |-> st, io |-> io, opens |-> 0, closes |-> 0, res |-> SerialOk]

\* Mutant: on_activate without its call of open().
ActivateCallResolveOnly(st, p, t, io, avail) ==
    LET r == Resolve(p)
    IN [c |-> [st |-> st, io |-> io, opens |-> 0, closes |-> 0,
               res |-> IF r.ok THEN SerialOk
                       ELSE [kind |-> "raise", exc |-> "Exception", arg |-> ""]],
        t |-> r.t]

\* on_activate: resolve the target, then open().
ActivateCall(st, p, t, io, avail) ==
    LET r == Resolve(p)
    IN IF r.ok THEN [c |-> OpenCall(st, r.t, io, avail), t |-> r.t]
       ELSE [c |-> [st |-> st, io |-> io, opens |-> 0, closes |-> 0,
                    res |-> [kind |-> "raise", exc |-> "Exception", arg |-> ""]],
             t |-> t]

SerialCallable == ncalls < MaxCalls

SerialRecord(op, c) ==
    [op |-> op, res |-> c.res, opens |-> c.opens, closes |-> c.closes,
     was |-> sstatus, wasOpen |-> isOpen]

Apply(op, c) ==
    /\ sstatus' = c.st
    /\ isOpen' = c.io
    /\ physOpens' = physOpens + c.opens
    /\ physCloses' = physCloses + c.closes
    /\ slast' = SerialRecord(op, c)
    /\ ncalls' = ncalls + 1
    /\ in_waiting' = IF c.closes = 1 THEN 0 ELSE in_waiting

OnActivate(avail) ==
    /\ SerialCallable
    /\ LET a == ActivateCall(sstatus, port, target, isOpen, avail)
       IN Apply("on_activate", a.c) /\ target' = a.t
    /\ UNCHANGED port
    /\ UNCHANGED shellVars

OnDeactivate ==
    /\ SerialCallable
    /\ Apply("on_deactivate", CloseCall(sstatus, isOpen))
    /\ UNCHANGED <<port, target>>
    /\ UNCHANGED shellVars

Open(avail) ==
    /\ SerialCallable
    /\ Apply("open", OpenCall(sstatus, target, isOpen, avail))
    /\ UNCHANGED <<port, target>>
    /\ UNCHANGED shellVars

Close ==
    /\ SerialCallable
    /\ Apply("close", CloseCall(sstatus, isOpen))
    /\ UNCHANGED <<port, target>>
    /\ UNCHANGED shellVars

\* ---- _read
ReadSizes == 0..MaxPending
\* Timeouts in seconds: 0 returns at once.
ReadTimeouts == {0, 1}
MaxOf(a, b) == IF a >= b THEN a ELSE b
MinOfTwo(a, b) == IF a <= b THEN a ELSE b
PortNotOpen == [kind |-> "raise", exc |-> "PortNotOpenError", arg |-> ""]
ReadTimeout == [kind |-> "raise", exc |-> "TIMEOUT", arg |-> ""]

\* serial.read(reading) of the library with pending bytes buffered and arrived
\* more coming in before the timeout: the number of bytes it returns.
SerialRead(pending, reading, arrived) == MinOfTwo(reading, pending + arrived)

\* Mutant: an empty read is returned to the caller.
ReadResultEmptyReturned(got) == SerialOk
\* The end of _read: an empty result raises TIMEOUT.
ReadResult(got) == IF got = 0 THEN ReadTimeout ELSE SerialOk

\* reading = max(size, self.serial.in_waiting)
Reading(size, pending) == MaxOf(size, pending)

\* _read after the library's read has given got bytes.
ReadDone(size, timeout, pending, arrived, reading, got) ==
    [op |-> "read", res |-> ReadResult(got), opens |-> 0, closes |-> 0,
     was |-> sstatus, wasOpen |-> isOpen, size |-> size, timeout |-> timeout,
     pending |-> pending, arrived |-> arrived, reading |-> reading, got |-> got]
ReadRequested(size, timeout, pending, arrived, reading) ==
    ReadDone(size, timeout, pending, arrived, reading,
             SerialRead(pending, reading, arrived))

\* _read(size, timeout) on a port with pending bytes buffered; on a port that
\* is not open the library raises.
ReadCall(io, size, timeout, pending, arrived) ==
    IF io THEN ReadRequested(size, timeout, pending, arrived, Reading(size, pending))
    ELSE [ReadDone(size, timeout, pending, 0, 0, 0) EXCEPT !.res = PortNotOpen]

ReadApply(r) ==
    /\ slast' = r
    /\ in_waiting' = r.pending + r.arrived - r.got
    /\ ncalls' = ncalls + 1

\* arrived: the bytes that come in while the read waits (none when it does not).
Read(size, timeout, arrived) ==
    /\ SerialCallable
    /\ timeout = 0 => arrived = 0
    /\ in_waiting + arrived <= MaxPending
    /\ ReadApply(ReadCall(isOpen, size, timeout, in_waiting, arrived))
    /\ UNCHANGED <<sstatus, port, target, isOpen, physOpens, physCloses>>
    /\ UNCHANGED shellVars

\* The device sends a byte, which the open port buffers.
Arrive ==
    /\ isOpen
    /\ in_waiting < MaxPending
    /\ in_waiting' = in_waiting + 1
    /\ UNCHANGED <<sstatus, port, target, isOpen, physOpens, physCloses, slast, ncalls>>
    /\ UNCHANGED shellVars

SerialNoOp == [op |-> "", res |-> SerialOk, opens |-> 0, closes |-> 0, was |-> 0,
               wasOpen |-> FALSE]

SerialInit ==
    /\ sstatus = 0
    /\ port \in Ports
    /\ target = Unresolved(port)
    /\ isOpen = FALSE
    /\ physOpens = 0
    /\ physCloses = 0
    /\ slast = SerialNoOp
    /\ ncalls = 0
    /\ in_waiting = 0

SerialNext ==
    \/ \E avail \in BOOLEAN : OnActivate(avail)
    \/ OnDeactivate
    \/ \E avail \in BOOLEAN : Open(avail)
    \/ Close
    \/ \E size \in ReadSizes, timeout \in ReadTimeouts, arrived \in 0..MaxPending :
          Read(size, timeout, arrived)
    \/ Arrive

\* ------------------------------------------------------- specifications
ShellIdle ==
    /\ pc = "failed" /\ status = 0 /\ cfg = [password |-> <<>>, keyfile |-> <<>>]
    /\ stream = <<>> /\ remote = Device("silent", FALSE, <<>>, ABSENT)
    /\ sent = <<>> /\ waits = <<>> /\ exc = "" /\ last = NoOp /\ nops = 0
SerialIdle ==
    /\ sstatus = 0 /\ port = CHOOSE p \in Ports : p.kind = "SerialPort"
    /\ target = Unresolved(port) /\ isOpen = FALSE /\ physOpens = 0 /\ physCloses = 0
    /\ slast = SerialNoOp /\ ncalls = MaxCalls /\ in_waiting = 0

\* A session without a key file and the commands run on it.
Init == ShellInit({<<>>}, {ABSENT}) /\ SerialIdle
Next ==
    \/ Startup
    \/ \E cmd \in UserCmds, to \in BOOLEAN : Run(cmd, to)
    \/ \E cmd \in UserCmds, to \in BOOLEAN : RunCheck(cmd, to)
    \/ GetStatus
    \/ \E to \in BOOLEAN : GetHostname(to)
    \/ Cleanup
Spec == Init /\ [][Next]_vars

\* Start-up alone, with and without a key file.
StartInit == ShellInit({<<>>, KeyRsa}, {ABSENT, OtherKey}) /\ SerialIdle
StartNext ==
    \/ Startup
    \/ \E k \in KeySlots : StartupPutSshKey(k)
StartSpec == StartInit /\ [][StartNext]_vars

\* Interface address lookup.
IpNext ==
    \/ Startup
    \/ \E i \in Interfaces, net \in IpCases, to \in BOOLEAN : GetIp(i, net, to)
IpSpec == Init /\ [][IpNext]_vars

\* Authorized-key installation.
KeyNext ==
    \/ StartNext
    \/ \E key \in KeyFiles, k \in KeySlots : PutSshKey(key, k)
KeySpec == StartInit /\ [][KeyNext]_vars

\* Every public operation on a session without a key file.
OpsCmds == {<<"false">>, <<"cat log">>}
OpsNets == {n \in IpCases : n.out \in {IpLo, IpLine("3:", "eth1", "10.0.0.2", "global")}
                              \/ n.code # 0}
OpsKeys == {KeyRsa, KeyDss}
OpsSlots == {0, 1, 3}
OpsNext ==
    \/ Startup
    \/ \E cmd \in OpsCmds, to \in BOOLEAN : Run(cmd, to)
    \/ \E cmd \in OpsCmds, to \in BOOLEAN : RunCheck(cmd, to)
    \/ GetStatus
    \/ \E net \in OpsNets, to \in BOOLEAN : GetIp("eth0", net, to)
    \/ \E to \in BOOLEAN : GetHostname(to)
    \/ \E key \in OpsKeys, k \in OpsSlots : PutSshKey(key, k)
    \/ Cleanup
OpsSpec == Init /\ [][OpsNext]_vars

\* The framing of run on the before-texts a wait for the prompt can give.
FrameLines == {<<MARKER>>, <<"0">>, <<"hi">>, <<"1", "_", "0">>, <<SP, "1", "0">>, <<>>,
               <<ESC, MARKER>>, <<"x", MARKER>>}
RECURSIVE JoinCRLF(_)
JoinCRLF(ls) ==
    IF ls = <<>> THEN <<>>
    ELSE IF Len(ls) = 1 THEN ls[1]
    ELSE ls[1] \o <<CRLF>> \o JoinCRLF(Tail(ls))
BeforeTexts ==
    {JoinCRLF(ls) : ls \in UNION {[1..n -> FrameLines] : n \in 0..MaxLines}}
FrameInit ==
    /\ pc = "ready" /\ status = 1 /\ cfg = [password |-> <<>>, keyfile |-> <<>>]
    /\ stream \in BeforeTexts
    /\ remote = [Device("shell", FALSE, <<>>, ABSENT) EXCEPT !.wrapper = TRUE]
    /\ sent = <<>> /\ waits = <<>> /\ exc = "" /\ last = NoOp /\ nops = 0
    /\ SerialIdle
\* Lines 54-63 of run on the before-text held in stream.
Frame ==
    /\ pc = "ready" /\ nops = 0
    /\ last' = [NoOp EXCEPT !.op = "extract", !.arg = stream, !.res = Extract(stream)]
    /\ nops' = nops + 1
    /\ UNCHANGED <<pc, status, cfg, stream, remote, sent, waits, exc>>
    /\ UNCHANGED serialVars
FrameSpec == FrameInit /\ [][Frame]_vars

\* One SerialDriver.
SerialSpecInit == SerialInit /\ ShellIdle
SerialSpec == SerialSpecInit /\ [][SerialNext]_vars

\* ----------------------------------------------------------------- claims
Tokens(s) == {s[i] : i \in 1..Len(s)}
Started == pc \in {"ready", "failed"}

\* C1: on a READY-capable session run(c), for a command c whose output does not
\* contain the marker, returns exactly the lines c printed, no diagnostics and
\* c's exit status, whatever else c prints.  Stated for a call made with nothing
\* left over in the console buffer and whose wait for the prompt did not time
\* out.
C1_RunReturnsCommandOutput ==
    (/\ last.op = "run" /\ status = 1
     /\ last.truth.ran /\ last.insync
     /\ MARKER \notin Tokens(last.truth.out)
     /\ last.res.exc # "TIMEOUT")
    => /\ last.res.kind = "tuple"
       /\ last.res.lines = last.truth.lines
       /\ last.res.diag = <<>>
       /\ last.res.code = last.truth.code

\* C2: during start-up the wrapper line is sent only if prompt verification
\* matched the prompt (status 1); after a timeout no wrapper line is sent and
\* no further wait is made.
C2_WrapperOnlyAfterPrompt ==
    /\ WRAPPER_LINE \in Tokens(sent) => status = 1
    /\ (pc \notin {"await_login", "check_prompt"} /\ status = 0)
          => Last(waits).matched = FALSE /\ Last(sent) = <<>>

\* C3: when prompt verification times out, start-up still completes without
\* raising: the session is constructed with status 0.
C3_StartupSurvivesPromptTimeout ==
    (Started /\ status = 0) => (pc = "ready" /\ exc = "")

\* C4: on a session that is not READY-capable run returns None, sends nothing,
\* waits for nothing and changes neither the status nor the console.
C4_RunNoOpWhenNotReady ==
    [][(nops' = nops + 1 /\ last'.op = "run" /\ status # 1)
         => /\ last'.res = None
            /\ last'.sent = <<>> /\ last'.nwaits = 0
            /\ status' = status /\ stream' = stream /\ remote' = remote]_vars
C4_Witness ==
    /\ pc = "ready" /\ status = 0
    /\ last.op = "run" /\ last.res.kind = "none"
    /\ remote.mode = "shell"

\* C5: on a READY-capable session run_check(c) issues exactly one run(c); when
\* that run gives exit code 0 run_check returns its output lines, when it gives
\* another exit code run_check raises ExecutionError(c).
C5_RunCheck ==
    (last.op = "run_check" /\ status = 1)
    => /\ Len(last.sent) = 1 /\ last.nwaits = 1
       /\ last.sent[1][1] = "run " /\ Unquote(Tail(last.sent[1])) = last.arg
       /\ (last.inner.kind = "tuple" /\ last.inner.code = 0)
             => last.res = Lines(last.inner.lines)
       /\ (last.inner.kind = "tuple" /\ last.inner.code # 0)
             => last.res = Raise("ExecutionError", last.arg)
C5_Witness ==
    /\ last.op = "run_check" /\ status = 1
    /\ last.inner.kind = "tuple" /\ last.inner.code = 1
    /\ last.res.exc = "ExecutionError" /\ last.arg = <<"false">>

\* C6: the physical open is issued only on a CLOSED connection and the physical
\* close only on an OPEN one; open() on an OPEN connection and close() on a
\* CLOSED one (also one that never opened) raise nothing, issue no physical
\* operation and change nothing.
C6_OpenCloseIdempotent ==
    [][/\ physOpens' # physOpens => (sstatus = 0 /\ ~isOpen)
       /\ physCloses' # physCloses => (sstatus = 1 /\ isOpen)
       /\ (ncalls' = ncalls + 1 /\ slast'.op = "open" /\ sstatus = 1)
             => /\ slast'.res = SerialOk
                /\ UNCHANGED <<sstatus, isOpen, physOpens, physCloses, target>>
       /\ (ncalls' = ncalls + 1 /\ slast'.op = "close" /\ sstatus = 0)
             => /\ slast'.res = SerialOk
                /\ UNCHANGED <<sstatus, isOpen, physOpens, physCloses, target>>]_vars
C6_Witness ==
    /\ slast.op = "open" /\ slast.was = 1 /\ slast.opens = 0
    /\ sstatus = 1 /\ isOpen /\ physOpens = 1

C8_OpenFailure ==
    [][/\ (ncalls' = ncalls + 1 /\ slast'.op = "open" /\ slast'.res.kind = "raise")
             => /\ slast'.res = SerialError(target.port)
                /\ physOpens' = physOpens + 1
                /\ sstatus' = 0 /\ ~isOpen'
       /\ (slast.op = "open" /\ slast.res.kind = "raise" /\ ncalls' = ncalls + 1)
             => /\ slast'.op = "open" => physOpens' = physOpens + 1
                /\ slast'.op = "close"
                      => /\ slast'.res = SerialOk
                         /\ UNCHANGED <<sstatus, isOpen, physOpens, physCloses>>]_vars
C8_Witness ==
    /\ slast.op = "open" /\ slast.res = SerialError("/dev/ttyUSB0")
    /\ target.resolved /\ physOpens = 2 /\ physCloses = 0 /\ sstatus = 0

\* The global-scope lines for interface name among the lines a command printed.
GlobalLines(lines, name) ==
    {i \in 1..Len(lines) : IpMatch(lines[i]).ok /\ IpMatch(lines[i]).if = name}

\* C9: get_ip never fails on a READY-capable session: it returns the address of
\* the requested interface when a global-scope line for it is present, and None
\* when no line matches that interface (also when lines of other interfaces
\* match) or when the command exits nonzero.  Stated for a call made with
\* nothing left over in the console buffer and whose wait did not time out.
C9_GetIpNeverFails ==
    (/\ last.op = "get_ip" /\ status = 1
     /\ last.truth.ran /\ last.insync /\ last.res.exc # "TIMEOUT")
    => /\ last.res.kind # "raise"
       /\ (last.truth.code # 0 \/ GlobalLines(last.truth.lines, last.arg[1]) = {})
             => last.res = None
       /\ (last.truth.code = 0 /\ GlobalLines(last.truth.lines, last.arg[1]) # {})
             => last.res.kind = "value"

\* What put_ssh_key sends beyond the reading of authorized_keys.
Writes(lines) ==
    {i \in 1..Len(lines) :
        Unquote(Tail(lines[i])) \notin {CmdCat, CmdTouch}}

\* C10: put_ssh_key is idempotent: a second call with the same key file, after
\* a first call that returned, leaves authorized_keys as the first call left it
\* and issues no write, chmod or mount.  Stated for calls made with nothing
\* left over in the console buffer, the second of which returns.
C10_PutSshKeyIdempotent ==
    [][(/\ status = 1
        /\ last.op = "put_ssh_key" /\ last.res = None /\ last.insync
        /\ stream = <<>>
        /\ nops' = nops + 1
        /\ last'.op = "put_ssh_key" /\ last'.arg = last.arg /\ last'.res = None)
         => /\ remote'.auth = remote.auth
            /\ Writes(last'.sent) = {}]_vars

\* The lines await_login sends with the configured password.
LoginLines ==
    <<<<>>, USERNAME>> \o (IF cfg.password # <<>> THEN <<cfg.password>> ELSE <<>>)

\* C11: start-up sends an empty line, the username, the password exactly when
\* one is configured, then the empty line of prompt verification, in this
\* order, whether or not the login and password prompts were matched.
C11_StartupOrder ==
    /\ pc = "await_login" => sent = <<>>
    /\ pc = "check_prompt" => sent = LoginLines
    /\ pc \notin {"await_login", "check_prompt"}
          => /\ Len(sent) > Len(LoginLines)
             /\ SubSeq(sent, 1, Len(LoginLines) + 1) = LoginLines \o <<<<>>>>
C11_Witness ==
    /\ pc = "inject_run" /\ cfg.password # <<>>
    /\ waits[1] = [pat |-> LOGIN, matched |-> FALSE]
    /\ waits[2] = [pat |-> PASSWORD_PROMPT, matched |-> FALSE]
    /\ sent = <<<<>>, USERNAME, cfg.password, <<>>>>

\* The wrapper line has been sent and the wait after it matched the prompt.
WrapperConfirmed ==
    /\ Len(sent) >= Len(LoginLines) + 2
    /\ sent[Len(LoginLines) + 2] = WRAPPER_LINE
    /\ Len(waits) = Len(LoginLines) + 1
    /\ Last(waits) = [pat |-> PROMPT, matched |-> TRUE]

\* C12 as stated: in every reachable state with status 1 the prompt has been
\* verified and the wrapper has been sent and confirmed by a prompt match.
C12_StatusImpliesWrapper ==
    status = 1 => WrapperConfirmed

\* C12 amended: in every state of a constructed session with status 1 the
\* prompt has been verified, the wrapper line has been sent after it, the wait
\* that follows it matched the prompt and the device has the wrapper defined;
\* during start-up the status is 1 from prompt verification on, before the
\* wrapper line is sent.
C12_ConstructedStatusImpliesWrapper ==
    /\ (pc = "ready" /\ status = 1)
          => /\ WrapperConfirmed
             /\ waits[Len(waits) - 1] = [pat |-> PROMPT, matched |-> TRUE]
             /\ sent[Len(LoginLines) + 1] = <<>>
             /\ remote.wrapper
    /\ (pc = "inject_run" /\ status = 1) => WRAPPER_LINE \notin Tokens(sent)
C12_Witness ==
    /\ pc = "ready" /\ status = 1 /\ cfg.keyfile # <<>>
    /\ WrapperConfirmed /\ remote.wrapper

\* C13: read(min_size, timeout) on an open connection requests the larger of
\* min_size and the bytes pending, and either returns a non-empty byte sequence
\* or, when nothing was read (also with timeout 0 and nothing pending), raises
\* Timeout; it never returns an empty result.
C13_ReadNeverEmpty ==
    [][(ncalls' = ncalls + 1 /\ slast'.op = "read" /\ isOpen)
         => /\ slast'.reading = MaxOf(slast'.size, in_waiting)
            /\ \/ slast'.res = SerialOk /\ slast'.got > 0
               \/ slast'.res = ReadTimeout /\ slast'.got = 0
            /\ slast'.got = MinOfTwo(slast'.reading, in_waiting + slast'.arrived)
            /\ (slast'.timeout = 0 /\ in_waiting = 0) => slast'.res = ReadTimeout
            /\ in_waiting' = in_waiting + slast'.arrived - slast'.got]_vars
C13_Witness ==
    /\ slast.op = "read" /\ slast.wasOpen /\ slast.res = SerialOk
    /\ slast.size = 1 /\ slast.pending = 2 /\ slast.got = 2 /\ in_waiting = 0

\* The line sequence of a before-text, the positions of its marker lines and
\* the lines between the first marker line and the next.
DataOf(before) == SplitCRLF(StripVT100(before))
MarkerLines(data) == {i \in 1..Len(data) : data[i] = <<MARKER>>}
NextMarker(data) == MinOf(MarkerLines(data) \ {MinOf(MarkerLines(data))})
Between(data) ==
    [k \in 1..(NextMarker(data) - MinOf(MarkerLines(data)) - 1) |->
        data[MinOf(MarkerLines(data)) + k]]
\* A line of decimal digits only, as echo "$?" prints it.
IsBareInteger(line) == line # <<>> /\ \A i \in 1..Len(line) : IsDigit(line[i])

\* C14: when the text between the two markers does not end in a bare integer
\* line (its last line is not a number, or there is no line between the
\* markers), run fails with an error and returns no result.
C14_NoGuessedExitCode ==
    (/\ last.op = "extract"
     /\ Cardinality(MarkerLines(DataOf(last.arg))) >= 2
     /\ \/ Between(DataOf(last.arg)) = <<>>
        \/ ~IsBareInteger(Last(Between(DataOf(last.arg)))))
    => last.res.kind = "raise"

\* C15: for a before-text with at least two marker lines the extraction of run
\* equals the reference: the lines between the first marker line and the next,
\* the last of them parsed as the exit code and the others, in order, the
\* output; where the reference has no exit code the extraction raises.
C15_ExtractionIsReference ==
    (last.op = "extract" /\ Cardinality(MarkerLines(DataOf(last.arg))) >= 2)
    => IF /\ Between(DataOf(last.arg)) # <<>>
          /\ IntParse(Last(Between(DataOf(last.arg)))).ok
       THEN last.res = Triple(Front(Between(DataOf(last.arg))),
                              IntParse(Last(Between(DataOf(last.arg)))).val)
       ELSE last.res.kind = "raise"
C15_Witness ==
    /\ last.op = "extract"
    /\ last.arg = <<ESC, MARKER, CRLF, "hi", CRLF, "0", CRLF, MARKER>>
    /\ last.res = Triple(<<<<"hi">>>>, 0)

\* C16: a Timeout of run's wait for the prompt is not absorbed: run ends with
\* the Timeout and returns no result; the Timeouts of the waits for the login
\* prompt, the password prompt and the prompt verification of start-up are
\* absorbed, start-up going on to its next step without an error.
C16_RunTimeoutPropagates ==
    [][/\ (/\ pc = "ready" /\ status = 1
           /\ nops' = nops + 1 /\ last'.op = "run"
           /\ stream' = SendLine(World, last'.sent[1]).stream)
             => last'.res = Raise("TIMEOUT", <<>>)
       /\ pc = "await_login" => (pc' \in {"await_login", "check_prompt"} /\ exc' = "")
       /\ pc = "check_prompt" => (pc' \in {"check_prompt", "inject_run"} /\ exc' = "")]_vars
C16_Witness ==
    /\ pc = "ready" /\ status = 1
    /\ waits[1] = [pat |-> LOGIN, matched |-> FALSE]
    /\ last.op = "run" /\ last.res = Raise("TIMEOUT", <<>>)
    /\ PROMPT \in Tokens(stream)

\* C17: after any sequence of open() calls, succeeding or failing, and
\* close() calls the status is 1 exactly when the serial port is open and 0
\* exactly when it is closed.
C17_StatusTracksPort ==
    /\ sstatus \in {0, 1}
    /\ sstatus = 1 <=> isOpen
C17_Witness ==
    /\ slast.op = "close" /\ slast.was = 1 /\ slast.closes = 1
    /\ physOpens = 2 /\ physCloses = 1
    /\ sstatus = 0 /\ ~isOpen

\* Output that ends its last line and holds neither the marker nor text the
\* prompt pattern matches.
PlainOutput(out) ==
    /\ MARKER \notin Tokens(out) /\ PROMPT \notin Tokens(out)
    /\ out = <<>> \/ Last(out) = CRLF

\* C18: in a sequence of run calls on a READY-capable session every run that
\* returns a result returns the output and exit status of the command passed
\* to that same call, also after an earlier run that ended with a Timeout or
\* matched the prompt early.
C18_RunReturnsOwnResult ==
    (/\ last.op = "run" /\ status = 1 /\ last.truth.ran
     /\ last.res.kind = "tuple" /\ PlainOutput(last.truth.out))
    => /\ last.res.lines = last.truth.lines
       /\ last.res.code = last.truth.code

\* C19: once start-up has finished no public operation changes the status,
\* whatever its outcome: a session that is not READY-capable never becomes
\* READY-capable, and a READY-capable one stays so after a failed or timed-out
\* run and after cleanup has sent exit.
C19_StatusFrame ==
    [][pc = "ready" => (status' = status /\ pc' = "ready")]_vars
C19_Witness ==
    /\ pc = "ready" /\ status = 1 /\ nops = 2
    /\ last.op = "cleanup" /\ last.sent = <<<<"exit">>>>
    /\ remote.mode = "login" /\ ~remote.wrapper

====
